---- MODULE Spec2Model ----
(***************************************************************************)
(* Model of seedsigner/gui/toast.py: the toast manager thread              *)
(* (BaseToastOverlayManagerThread.run) and its use of Renderer.lock, the   *)
(* display, the hardware inputs and the MicroSD collaborator.              *)
(*                                                                         *)
(* pc names the statement of run() the thread is about to execute; the     *)
(* line of toast.py is given with every action.  Renderer.lock is a        *)
(* threading.Lock: it has no owner, any thread may release it, and         *)
(* releasing it while unlocked raises RuntimeError.  lock records which    *)
(* thread's acquire() locked it ("free" when unlocked).                    *)
(* The names time and FontAwesomeIconConstants are taken to be bound.      *)
(***************************************************************************)
EXTENDS Integers, FiniteSets, Sequences, TLC

VARIABLES
    variant,                \* which class is constructed
    action,                 \* SDCardStateChangeToastManagerThread's action
    pc,                     \* position of the toast thread in run()
    keep_running,           \* BaseThread.keep_running
    toggle,                 \* self._toggle_renderer_lock
    has_rendered,           \* local has_rendered of run()
    previous_screen_state,  \* self.previous_screen_state
    start,                  \* local start of run()
    lock,                   \* Renderer.lock: "free", "toast" or a consumer
    display,                \* the frame the display shows
    holding,                \* other consumers: believes it holds the lock
    has_input,              \* HardwareButtons.has_any_input()
    sd_inserted,            \* MicroSD.is_inserted()
    now,                    \* time.time(), in seconds
    hist                    \* history of the run (observation only)

vars == <<variant, action, pc, keep_running, toggle, has_rendered, previous_screen_state,
          start, lock, display, holding, has_input, sd_inserted, now,
          hist>>

\* ---------------------------------------------------------------- bounds
MaxTime == 4

\* ------------------------------------------------------- program constants
DefaultActivationDelay == 0
DefaultDuration == 3
RemoveSDActivationDelay == 3
RemoveSDDuration == 1000000

Variants == {"RemoveSDCard", "SDCardStateChange"}
\* The classes a caller can try to construct: the base class has no
\* instantiate_toast of its own.
Classes == Variants \cup {"Base"}
\* MicroSD.ACTION__INSERTED, MicroSD.ACTION__REMOVED, and any other value.
ValidActions == {"inserted", "removed"}
Actions == ValidActions \cup {"invalid"}
Others == {"screensaver"}
Frames == {"A", "B"}
Toast == "T"
None == "None"

activation_delay ==
    IF variant = "RemoveSDCard" THEN RemoveSDActivationDelay ELSE DefaultActivationDelay

duration ==
    IF variant = "RemoveSDCard" THEN RemoveSDDuration ELSE DefaultDuration

\* Variant of should_keep_running: the override of lines 195-198 is missing.
should_keep_running_default == TRUE

\* should_keep_running(): True in the base class, MicroSD.is_inserted() in
\* RemoveSDCardToastManagerThread.
should_keep_running ==
    IF variant = "RemoveSDCard" THEN sd_inserted ELSE TRUE

\* lock.locked()
locked == lock # "free"

\* MicroSD.is_inserted() is false for the toast that consults it.
MediumAbsent == variant = "RemoveSDCard" /\ ~sd_inserted

\* ------------------------------------------------- states of spec 4.1
PendingPcs == {"start", "delay"}
AcquiringPcs == {"acquire"}
MonitoringPcs == {"loop_cond", "loop_pred", "input_check", "toggle_check",
                  "copy", "render", "timeout_check", "loop_sleep"}
YieldingPcs == {"yield_clear", "yield_release", "yield_poll", "yield_sleep",
                "reacquire"}
TerminatingPcs == {"finally_check", "finally_restore", "finally_release"}

Phase(p) ==
    IF p \in {"new", "config_error"} THEN "NOT_CONSTRUCTED"
    ELSE IF p \in PendingPcs THEN "PENDING_ACTIVATION"
    ELSE IF p \in AcquiringPcs THEN "ACQUIRING_LOCK"
    ELSE IF p \in MonitoringPcs THEN "MONITORING"
    ELSE IF p \in YieldingPcs THEN "YIELDING"
    ELSE IF p \in TerminatingPcs THEN "TERMINATING"
    ELSE "TERMINATED"

\* The window of a served yield: after lock.release() (line 142) and before
\* lock.acquire() (line 151) has returned.
WindowPcs == {"yield_poll", "yield_sleep", "reacquire"}

InitHist ==
    [ exit_cause     |-> "none",   \* why the run body was left
      exit_from      |-> "none",   \* pc at which it was left
      cleanups       |-> 0,        \* executions of the finally block
      capture_lock   |-> "-",      \* lock when canvas.copy() ran
      paint_lock     |-> "-",      \* lock when toast.render() ran
      paint_yielded  |-> FALSE,    \* a yield had been served before the paint
      restore_lock   |-> "-",      \* lock when show_image(previous) ran
      release_lock   |-> "-",      \* lock when the final release() ran
      after_cleanup  |-> "-",      \* display when the finally block ended
      yields_served  |-> 0,        \* reacquires completed
      window_acquire |-> FALSE,    \* another consumer acquired since line 142
      stop_at        |-> "-",      \* StopPoint when keep_running was cleared
      stop_sleeps    |-> 0,        \* line 165 sleeps completed since then
      stop_passes    |-> 0,        \* keep_running checks passed since then
      stop_yields    |-> 0,        \* yields entered since then
      late_yield     |-> "none",   \* the last yield window's late toggle call
      absent_pass    |-> FALSE,    \* line 130 passed with the medium absent
      iter           |-> {},       \* what the current loop iteration has done
      captures       |-> 0,        \* executions of canvas.copy()
      paints         |-> 0,        \* executions of toast.render() that drew
      paint_time     |-> -1,       \* time.time() when toast.render() returned
      hide_time      |-> -1 ]      \* time.time() at the break of line 162

Init ==
    /\ variant \in Classes
    /\ action \in Actions \cup {"-"}
    /\ (variant = "SDCardStateChange") <=> (action \in Actions)
    /\ pc = "new"
    /\ keep_running = TRUE
    /\ toggle = FALSE
    /\ has_rendered = FALSE
    /\ previous_screen_state = None
    /\ start = 0
    /\ lock = "free"
    /\ display = "A"
    /\ holding = [c \in Others |-> FALSE]
    /\ has_input = FALSE
    /\ sd_inserted = TRUE
    /\ now = 0
    /\ hist = InitHist

Cap(n) == IF n < 2 THEN n + 1 ELSE 2

\* Where in run() the thread is when keep_running is cleared: in MONITORING
\* before the iteration's read of keep_running (line 130), between that read
\* and the yield check (line 138), or after the yield block.
StopPoint(p) ==
    IF p = "loop_cond" THEN "MONITORING:before-130"
    ELSE IF p \in {"loop_pred", "input_check", "toggle_check"} THEN "MONITORING:130-138"
    ELSE IF p \in MonitoringPcs THEN "MONITORING:after-152"
    ELSE Phase(p)

\* The thread is in the try body of run().  The finally block reads neither
\* keep_running, _toggle_renderer_lock, the inputs nor the medium: the
\* signals are followed while the try body runs.
InRunBody ==
    Phase(pc) \in {"PENDING_ACTIVATION", "ACQUIRING_LOCK", "MONITORING", "YIELDING"}

\* The thread has been started and run() has not returned.
Started == InRunBody \/ Phase(pc) = "TERMINATING"

\* Leaving the run body for the finally block (break, loop condition false,
\* or an exception).
Exit(cause) ==
    /\ pc' = "finally_check"
    /\ hist' = [hist EXCEPT !.exit_cause = cause, !.exit_from = pc]

\* Variant of AfterYieldBlock: line 154 does not test has_rendered.
AfterYieldBlockAlwaysPaints == "copy"

\* Where the loop body continues after the yield block: line 154.
AfterYieldBlock ==
    IF has_rendered THEN "timeout_check" ELSE "copy"

\* Variant of Construct: the constructors do not validate anything.
ConstructUnchecked ==
    /\ pc = "new"
    /\ pc' = "start"
    /\ UNCHANGED <<variant, action, keep_running, toggle, has_rendered,
                   previous_screen_state, start, lock, display, holding,
                   has_input, sd_inserted, now, hist>>

\* ------------------------------------------------------ construction
\* lines 81-104 and 203-209: SDCardStateChangeToastManagerThread.__init__
\* raises for an action that is neither ACTION__INSERTED nor ACTION__REMOVED
\* (line 206) before the base constructor runs; the base constructor calls
\* instantiate_toast() (line 100), which raises in the base class (line 104).
\* An exception leaves the caller without an object to start; otherwise the
\* caller starts the thread.
Construct ==
    /\ pc = "new"
    /\ pc' = IF variant = "SDCardStateChange" /\ action \notin ValidActions
                THEN "config_error"
             ELSE IF variant = "Base"
                THEN "config_error"
             ELSE "start"
    /\ UNCHANGED <<variant, action, keep_running, toggle, has_rendered,
                   previous_screen_state, start, lock, display, holding,
                   has_input, sd_inserted, now, hist>>

\* Variant of RunStart: run() sets keep_running itself when it begins.
RunStartSetsKeepRunning ==
    /\ pc = "start"
    /\ start' = now
    /\ has_rendered' = FALSE
    /\ previous_screen_state' = None
    /\ keep_running' = TRUE
    /\ pc' = IF activation_delay > 0 THEN "delay" ELSE "acquire"
    /\ UNCHANGED <<variant, action, toggle, lock, display, holding,
                   has_input, sd_inserted, now, hist>>

\* ------------------------------------------------------ the toast thread
\* lines 118-122
RunStart ==
    /\ pc = "start"
    /\ start' = now
    /\ has_rendered' = FALSE
    /\ previous_screen_state' = None
    /\ pc' = IF activation_delay > 0 THEN "delay" ELSE "acquire"
    /\ UNCHANGED <<variant, action, keep_running, toggle, lock, display, holding,
                   has_input, sd_inserted, now, hist>>

\* line 123: time.sleep(self.activation_delay)
ActivationSleep ==
    /\ pc = "delay"
    /\ now - start >= activation_delay
    /\ pc' = "acquire"
    /\ UNCHANGED <<variant, action, keep_running, toggle, has_rendered,
                   previous_screen_state, start, lock, display, holding,
                   has_input, sd_inserted, now, hist>>

\* Variant of Acquire: the loop is entered past its condition (do-while).
AcquireEntersBody ==
    /\ pc = "acquire"
    /\ lock = "free"
    /\ lock' = "toast"
    /\ pc' = "input_check"
    /\ UNCHANGED <<variant, action, keep_running, toggle, has_rendered,
                   previous_screen_state, start, display, holding,
                   has_input, sd_inserted, now, hist>>

\* line 128: self.renderer.lock.acquire()
Acquire ==
    /\ pc = "acquire"
    /\ lock = "free"
    /\ lock' = "toast"
    /\ pc' = "loop_cond"
    /\ UNCHANGED <<variant, action, keep_running, toggle, has_rendered,
                   previous_screen_state, start, display, holding,
                   has_input, sd_inserted, now, hist>>

\* Variant of LoopCond: the loop condition does not read keep_running.
LoopCondIgnoresStop ==
    /\ pc = "loop_cond"
    /\ pc' = "loop_pred"
    /\ hist' = [hist EXCEPT !.stop_passes =
                    IF hist.stop_at # "-" THEN Cap(@) ELSE @]
    /\ UNCHANGED <<variant, action, keep_running, toggle, has_rendered,
                   previous_screen_state, start, lock, display, holding,
                   has_input, sd_inserted, now>>

\* line 130, left operand: self.keep_running
LoopCond ==
    /\ pc = "loop_cond"
    /\ IF keep_running
       THEN /\ pc' = "loop_pred"
            /\ hist' = [hist EXCEPT !.stop_passes =
                            IF hist.stop_at # "-" THEN Cap(@) ELSE @,
                                    !.iter = @ \cup {"keep_running"}]
       ELSE Exit("stop")
    /\ UNCHANGED <<variant, action, keep_running, toggle, has_rendered,
                   previous_screen_state, start, lock, display, holding,
                   has_input, sd_inserted, now>>

\* Variant of LoopPred: the input check of lines 131-134 is not made before
\* the yield block and the paint.
LoopPredSkipsInputCheck ==
    /\ pc = "loop_pred"
    /\ IF should_keep_running
       THEN /\ pc' = "toggle_check"
            /\ hist' = [hist EXCEPT !.iter = @ \cup {"predicate"},
                                    !.absent_pass = @ \/ MediumAbsent]
       ELSE Exit("predicate")
    /\ UNCHANGED <<variant, action, keep_running, toggle, has_rendered,
                   previous_screen_state, start, lock, display, holding,
                   has_input, sd_inserted, now>>

\* line 130, right operand: self.should_keep_running()
LoopPred ==
    /\ pc = "loop_pred"
    /\ IF should_keep_running
       THEN /\ pc' = "input_check"
            /\ hist' = [hist EXCEPT !.iter = @ \cup {"predicate"},
                                    !.absent_pass = @ \/ MediumAbsent]
       ELSE Exit("predicate")
    /\ UNCHANGED <<variant, action, keep_running, toggle, has_rendered,
                   previous_screen_state, start, lock, display, holding,
                   has_input, sd_inserted, now>>

\* lines 131-134: if self.hw_inputs.has_any_input(): break
InputCheck ==
    /\ pc = "input_check"
    /\ IF has_input
       THEN Exit("input")
       ELSE /\ pc' = "toggle_check"
            /\ hist' = [hist EXCEPT !.iter = @ \cup {"no_input"}]
    /\ UNCHANGED <<variant, action, keep_running, toggle, has_rendered,
                   previous_screen_state, start, lock, display, holding,
                   has_input, sd_inserted, now>>

\* line 138: if self._toggle_renderer_lock
ToggleCheck ==
    /\ pc = "toggle_check"
    /\ IF toggle
       THEN /\ pc' = "yield_clear"
            /\ hist' = [hist EXCEPT !.stop_yields =
                            IF hist.stop_at # "-" THEN Cap(@) ELSE @,
                                    !.iter = @ \cup {"yield_pending"}]
       ELSE /\ pc' = AfterYieldBlock
            /\ hist' = [hist EXCEPT !.iter = @ \cup {"no_yield"}]
    /\ UNCHANGED <<variant, action, keep_running, toggle, has_rendered,
                   previous_screen_state, start, lock, display, holding,
                   has_input, sd_inserted, now>>

\* line 141: self._toggle_renderer_lock = False
YieldClear ==
    /\ pc = "yield_clear"
    /\ toggle' = FALSE
    /\ pc' = "yield_release"
    /\ UNCHANGED <<variant, action, keep_running, has_rendered,
                   previous_screen_state, start, lock, display, holding,
                   has_input, sd_inserted, now, hist>>

\* Variant of YieldRelease: the release call is missing.
YieldReleaseMissing ==
    /\ pc = "yield_release"
    /\ pc' = "yield_poll"
    /\ hist' = [hist EXCEPT !.window_acquire = FALSE]
    /\ UNCHANGED <<variant, action, keep_running, toggle, has_rendered,
                   previous_screen_state, start, lock, display, holding,
                   has_input, sd_inserted, now>>

\* line 142: self.renderer.lock.release()
YieldRelease ==
    /\ pc = "yield_release"
    /\ lock' = "free"
    /\ pc' = "yield_poll"
    /\ hist' = [hist EXCEPT !.window_acquire = FALSE,
                            !.late_yield = IF @ = "pending" THEN "released" ELSE @]
    /\ UNCHANGED <<variant, action, keep_running, toggle, has_rendered,
                   previous_screen_state, start, display, holding,
                   has_input, sd_inserted, now>>

\* Variant of YieldPoll: no wait for another consumer to take the lock.
YieldPollNoWait ==
    /\ pc = "yield_poll"
    /\ pc' = "reacquire"
    /\ UNCHANGED <<variant, action, keep_running, toggle, has_rendered,
                   previous_screen_state, start, lock, display, holding,
                   has_input, sd_inserted, now, hist>>

\* line 145: while not self.renderer.lock.locked()
YieldPoll ==
    /\ pc = "yield_poll"
    /\ pc' = IF locked THEN "reacquire" ELSE "yield_sleep"
    /\ UNCHANGED <<variant, action, keep_running, toggle, has_rendered,
                   previous_screen_state, start, lock, display, holding,
                   has_input, sd_inserted, now, hist>>

\* line 147: time.sleep(0.1)
YieldSleep ==
    /\ pc = "yield_sleep"
    /\ pc' = "yield_poll"
    /\ UNCHANGED <<variant, action, keep_running, toggle, has_rendered,
                   previous_screen_state, start, lock, display, holding,
                   has_input, sd_inserted, now, hist>>

\* Variant of Reacquire: the acquire does not block (its result is ignored).
ReacquireNoBlock ==
    /\ pc = "reacquire"
    /\ lock' = IF lock = "free" THEN "toast" ELSE lock
    /\ pc' = AfterYieldBlock
    /\ hist' = [hist EXCEPT !.yields_served = Cap(@)]
    /\ UNCHANGED <<variant, action, keep_running, toggle, has_rendered,
                   previous_screen_state, start, display, holding,
                   has_input, sd_inserted, now>>

\* line 151: self.renderer.lock.acquire()
Reacquire ==
    /\ pc = "reacquire"
    /\ lock = "free"
    /\ lock' = "toast"
    /\ pc' = AfterYieldBlock
    /\ hist' = [hist EXCEPT !.yields_served = Cap(@),
                            !.late_yield = IF @ = "requested" THEN "pending" ELSE "none",
                            !.iter = @ \cup {"yield_served"}]
    /\ UNCHANGED <<variant, action, keep_running, toggle, has_rendered,
                   previous_screen_state, start, display, holding,
                   has_input, sd_inserted, now>>

\* Variant of Capture: has_rendered is set before the toast is rendered.
CaptureSetsHasRendered ==
    /\ pc = "copy"
    /\ previous_screen_state' = display
    /\ has_rendered' = TRUE
    /\ pc' = "render"
    /\ hist' = [hist EXCEPT !.capture_lock = lock, !.captures = Cap(@)]
    /\ UNCHANGED <<variant, action, keep_running, toggle, start, lock,
                   display, holding, has_input, sd_inserted, now>>

\* line 155: self.previous_screen_state = self.renderer.canvas.copy()
Capture ==
    /\ pc = "copy"
    /\ previous_screen_state' = display
    /\ pc' = "render"
    /\ hist' = [hist EXCEPT !.capture_lock = lock, !.captures = Cap(@)]
    /\ UNCHANGED <<variant, action, keep_running, toggle, has_rendered, start, lock,
                   display, holding, has_input, sd_inserted, now>>

\* lines 157-158: self.toast.render(); has_rendered = True
Render ==
    /\ pc = "render"
    /\ display' = Toast
    /\ has_rendered' = TRUE
    /\ pc' = "timeout_check"
    /\ hist' = [hist EXCEPT !.paint_lock = lock,
                            !.paint_yielded = (hist.yields_served > 0),
                            !.paints = Cap(@),
                            !.paint_time = now]
    /\ UNCHANGED <<variant, action, keep_running, toggle, previous_screen_state, start,
                   lock, holding, has_input, sd_inserted, now>>

\* Variant of TimeoutCheck: the break of line 162 is missing.
TimeoutCheckNoBreak ==
    /\ pc = "timeout_check"
    /\ pc' = "loop_sleep"
    /\ UNCHANGED <<variant, action, keep_running, toggle, has_rendered,
                   previous_screen_state, start, lock, display, holding,
                   has_input, sd_inserted, now, hist>>

\* lines 160-162: elapsed time check
TimeoutCheck ==
    /\ pc = "timeout_check"
    /\ IF now - start > activation_delay + duration /\ has_rendered
       THEN /\ pc' = "finally_check"
            /\ hist' = [hist EXCEPT !.exit_cause = "timeout", !.exit_from = pc,
                                    !.hide_time = now]
       ELSE /\ pc' = "loop_sleep"
            /\ UNCHANGED hist
    /\ UNCHANGED <<variant, action, keep_running, toggle, has_rendered,
                   previous_screen_state, start, lock, display, holding,
                   has_input, sd_inserted, now>>

\* line 165: time.sleep(0.1)
LoopSleep ==
    /\ pc = "loop_sleep"
    /\ pc' = "loop_cond"
    /\ hist' = [hist EXCEPT !.stop_sleeps =
                    IF hist.stop_at # "-" THEN Cap(@) ELSE @,
                            !.iter = {}]
    /\ UNCHANGED <<variant, action, keep_running, toggle, has_rendered,
                   previous_screen_state, start, lock, display, holding,
                   has_input, sd_inserted, now>>

\* The calls of the run body that can raise: the sleeps, the lock's acquire
\* and locked, the hooks and collaborators, time.time().
FaultPcs == {"delay", "acquire", "loop_pred", "input_check", "yield_poll",
             "yield_sleep", "reacquire", "copy", "render", "timeout_check",
             "loop_sleep"}

\* Variant of Fault: no finally block, the exception ends the thread.
FaultEndsThread ==
    /\ pc \in FaultPcs
    /\ pc' = "done"
    /\ hist' = [hist EXCEPT !.exit_cause = "fault", !.exit_from = pc]
    /\ UNCHANGED <<variant, action, keep_running, toggle, has_rendered,
                   previous_screen_state, start, lock, display, holding,
                   has_input, sd_inserted, now>>

\* lines 117/167: an exception in the try body transfers control to the
\* finally block.  A render() that raises may or may not have drawn.
Fault ==
    /\ pc \in FaultPcs
    /\ pc' = "finally_check"
    /\ \E drawn \in (IF pc = "render" THEN BOOLEAN ELSE {FALSE}) :
         /\ display' = IF drawn THEN Toast ELSE display
         /\ hist' = [hist EXCEPT !.exit_cause = "fault", !.exit_from = pc,
                                 !.paint_lock = IF drawn THEN lock ELSE @,
                                 !.paints = IF drawn THEN Cap(@) ELSE @]
    /\ UNCHANGED <<variant, action, keep_running, toggle, has_rendered,
                   previous_screen_state, start, lock, holding,
                   has_input, sd_inserted, now>>

\* Variant of FinallyCheck: line 169 does not test has_rendered.
FinallyCheckIgnoresHasRendered ==
    /\ pc = "finally_check"
    /\ pc' = IF locked THEN "finally_restore" ELSE "finally_release"
    /\ hist' = [hist EXCEPT !.cleanups = Cap(@)]
    /\ UNCHANGED <<variant, action, keep_running, toggle, has_rendered,
                   previous_screen_state, start, lock, display, holding,
                   has_input, sd_inserted, now>>

\* line 169: if has_rendered and self.renderer.lock.locked()
FinallyCheck ==
    /\ pc = "finally_check"
    /\ pc' = IF has_rendered /\ locked THEN "finally_restore" ELSE "finally_release"
    /\ hist' = [hist EXCEPT !.cleanups = Cap(@)]
    /\ UNCHANGED <<variant, action, keep_running, toggle, has_rendered,
                   previous_screen_state, start, lock, display, holding,
                   has_input, sd_inserted, now>>

\* line 171: self.renderer.show_image(self.previous_screen_state)
FinallyRestore ==
    /\ pc = "finally_restore"
    /\ display' = previous_screen_state
    /\ pc' = "finally_release"
    /\ hist' = [hist EXCEPT !.restore_lock = lock]
    /\ UNCHANGED <<variant, action, keep_running, toggle, has_rendered,
                   previous_screen_state, start, lock, holding,
                   has_input, sd_inserted, now>>

\* line 174: self.renderer.lock.release().  Unlocks the lock whoever locked
\* it; on an unlocked lock it raises RuntimeError and the thread ends.
FinallyRelease ==
    /\ pc = "finally_release"
    /\ lock' = "free"
    /\ pc' = "done"
    /\ hist' = [hist EXCEPT !.release_lock = lock, !.after_cleanup = display]
    /\ UNCHANGED <<variant, action, keep_running, toggle, has_rendered,
                   previous_screen_state, start, display, holding,
                   has_input, sd_inserted, now>>

ToastStep ==
    \/ RunStart
    \/ ActivationSleep
    \/ Acquire
    \/ LoopCond
    \/ LoopPred
    \/ InputCheck
    \/ ToggleCheck
    \/ YieldClear
    \/ YieldRelease
    \/ YieldPoll
    \/ YieldSleep
    \/ Reacquire
    \/ Capture
    \/ Render
    \/ TimeoutCheck
    \/ LoopSleep
    \/ FinallyCheck
    \/ FinallyRestore
    \/ FinallyRelease

\* --------------------------------------------------------- the host
\* "Controller should set BaseThread.keep_running = False" (lines 68-69)
RequestStop ==
    /\ InRunBody
    /\ keep_running
    /\ keep_running' = FALSE
    /\ hist' = [hist EXCEPT !.stop_at = StopPoint(pc), !.stop_sleeps = 0,
                            !.stop_passes = 0, !.stop_yields = 0]
    /\ UNCHANGED <<variant, action, pc, toggle, has_rendered, previous_screen_state,
                   start, lock, display, holding, has_input, sd_inserted, now>>

\* The part of the yield block in which _toggle_renderer_lock has been
\* cleared (line 141) and the reacquire (line 151) has not returned.
LateYieldPcs == {"yield_release", "yield_poll", "yield_sleep", "reacquire"}

\* lines 112-113: toggle_renderer_lock()
RequestLockYield ==
    /\ InRunBody
    /\ ~toggle
    /\ toggle' = TRUE
    /\ hist' = [hist EXCEPT !.late_yield =
                    IF pc \in LateYieldPcs THEN "requested" ELSE @]
    /\ UNCHANGED <<variant, action, pc, keep_running, has_rendered,
                   previous_screen_state, start, lock, display, holding,
                   has_input, sd_inserted, now>>

\* ------------------------------------------ the other users of the lock
\* The model follows the system for the lifetime of the toast thread: from
\* its start until run() has returned (pc = "done").
\* Another consumer of Renderer.lock (the screensaver, the current Screen):
\* acquires the lock, draws while it believes it holds it, releases it.
OtherAcquire(c) ==
    /\ Started
    /\ ~holding[c]
    /\ lock = "free"
    /\ lock' = c
    /\ holding' = [holding EXCEPT ![c] = TRUE]
    /\ hist' = [hist EXCEPT !.window_acquire = TRUE]
    /\ UNCHANGED <<variant, action, pc, keep_running, toggle, has_rendered,
                   previous_screen_state, start, display, has_input,
                   sd_inserted, now>>

OtherDraw(c) ==
    /\ Started
    /\ holding[c]
    /\ \E f \in Frames :
         /\ f # display
         /\ display' = f
    /\ UNCHANGED <<variant, action, pc, keep_running, toggle, has_rendered,
                   previous_screen_state, start, lock, holding, has_input,
                   sd_inserted, now, hist>>

OtherRelease(c) ==
    /\ Started
    /\ holding[c]
    /\ holding' = [holding EXCEPT ![c] = FALSE]
    /\ lock' = "free"
    /\ UNCHANGED <<variant, action, pc, keep_running, toggle, has_rendered,
                   previous_screen_state, start, display, has_input,
                   sd_inserted, now, hist>>

\* ------------------------------------------------------ the environment
ButtonPress ==
    /\ InRunBody
    /\ ~has_input
    /\ has_input' = TRUE
    /\ UNCHANGED <<variant, action, pc, keep_running, toggle, has_rendered,
                   previous_screen_state, start, lock, display, holding,
                   sd_inserted, now, hist>>

SDRemoved ==
    /\ InRunBody
    /\ variant = "RemoveSDCard"
    /\ sd_inserted
    /\ sd_inserted' = FALSE
    /\ UNCHANGED <<variant, action, pc, keep_running, toggle, has_rendered,
                   previous_screen_state, start, lock, display, holding,
                   has_input, now, hist>>

\* Where run() sleeps: the statements during which a second can go by, as
\* it can while an acquire is blocked (the others take far less).
SleepingPcs == {"delay", "yield_sleep", "loop_sleep"}
BlockingPcs == {"acquire", "reacquire"}

Tick ==
    /\ pc \in SleepingPcs \/ (pc \in BlockingPcs /\ locked)
    /\ now < MaxTime
    /\ now' = now + 1
    /\ UNCHANGED <<variant, action, pc, keep_running, toggle, has_rendered,
                   previous_screen_state, start, lock, display, holding,
                   has_input, sd_inserted, hist>>

Next ==
    \/ Construct
    \/ ToastStep
    \/ Fault
    \/ RequestStop
    \/ RequestLockYield
    \/ \E c \in Others : OtherAcquire(c)
    \/ \E c \in Others : OtherDraw(c)
    \/ \E c \in Others : OtherRelease(c)
    \/ ButtonPress
    \/ SDRemoved
    \/ Tick

Spec == Init /\ [][Next]_vars

\* Fairness of the threads: the toast thread keeps executing while it can, a
\* blocking acquire returns if the lock is free again and again, a consumer
\* that took the lock gives it back, and time passes while the thread waits
\* (sleeps of 0.1 s repeated for ever add up to any number of seconds).
FairSpec ==
    /\ Init
    /\ [][Next]_vars
    /\ WF_vars(ToastStep)
    /\ SF_vars(Acquire)
    /\ SF_vars(Reacquire)
    /\ \A c \in Others : WF_vars(OtherRelease(c))
    /\ SF_vars(Tick)

\* ============================================================ properties

\* C1: the frame capture (line 155) and the toast paint (line 157) happen
\* only while Renderer.lock is locked by the toast thread's own acquire; a
\* paint that follows a served yield happens after the reacquire returned.
C1_PaintOnlyWithLock ==
    /\ pc \in {"copy", "render"} => lock = "toast"
    /\ hist.capture_lock \in {"-", "toast"}
    /\ hist.paint_lock \in {"-", "toast"}

\* A first paint made after a yield was served.
C1_Witness ==
    /\ hist.paint_lock = "toast"
    /\ hist.paint_yielded

\* C2: on every exit path of the run body (stop, predicate, input, timeout,
\* fault) the finally block is executed exactly once, and a thread that has
\* ended is not the one whose acquire locked Renderer.lock.
C2_CleanupOnce ==
    /\ hist.cleanups <= 1
    /\ Phase(pc) \notin {"TERMINATING", "TERMINATED"} => hist.cleanups = 0
    /\ pc \in {"finally_restore", "finally_release", "done"} => hist.cleanups = 1
    /\ pc = "done" => lock # "toast"

\* The thread has ended after a fault raised inside the yield window.
C2_Witness ==
    /\ pc = "done"
    /\ hist.exit_cause = "fault"
    /\ hist.exit_from \in WindowPcs

\* C3: whenever the toast was painted, the display shows the captured frame
\* when the finally block has ended, whatever ended the run.
C3_RestoredAfterCleanup ==
    (pc = "done" /\ has_rendered) => hist.after_cleanup = previous_screen_state

\* C4: the final release (line 174) is made only on a lock that the toast
\* thread's own acquire locked.
C4_ReleaseOnlyOwnLock ==
    hist.release_lock \in {"-", "toast"}

\* C5: the finally block writes previous_screen_state to the display (line
\* 171) only while the lock is locked by the toast thread's own acquire.
C5_RestoreOnlyWithLock ==
    hist.restore_lock \in {"-", "toast"}

\* Positions of run() at which the lock is the toast thread's on a run that
\* leaves the loop from MONITORING: the loop outside the yield window, and the
\* finally block up to its release.
HeldPcs == MonitoringPcs \cup {"yield_clear", "yield_release"}

\* C6 as stated: the toast thread holds the lock exactly when it is in the
\* monitoring loop outside a yield window or in the finally block before the
\* final release.
C6_HeldExactlyInLoopAndCleanup ==
    (lock = "toast") <=> (pc \in HeldPcs \cup TerminatingPcs)

\* C6 amended: the toast thread holds the lock exactly when it is in the
\* monitoring loop outside a yield window, or in a finally block that was
\* entered from MONITORING, before the final release; never in
\* PENDING_ACTIVATION, ACQUIRING_LOCK, a yield window, a finally block that a
\* fault in one of those entered, or after the thread has ended.
C6_HeldExactlyWhenEnteredFromLoop ==
    (lock = "toast") <=>
        \/ pc \in HeldPcs
        \/ pc \in TerminatingPcs /\ Phase(hist.exit_from) = "MONITORING"

\* The lock is still the toast thread's at the final release, after a yield
\* window was closed by a reacquire.
C6_Witness ==
    /\ pc = "finally_release"
    /\ lock = "toast"
    /\ hist.yields_served > 0

\* C7: the toast thread reacquires the lock it yielded only after another
\* consumer has acquired it since the release of line 142.
C7_HandoffBeforeReacquire ==
    /\ pc = "reacquire" => hist.window_acquire
    /\ (hist.yields_served > 0 /\ lock = "toast") => hist.window_acquire

\* Back in MONITORING with the lock after a served yield.
C7_Witness ==
    /\ hist.yields_served > 0
    /\ lock = "toast"
    /\ pc \in MonitoringPcs

\* C8: in a yield window in which another consumer has acquired the lock and
\* released it, the toast thread eventually leaves the window (it reacquires
\* the lock and is back in MONITORING, or a fault ends the run).
C8_YieldCompletes ==
    (pc \in WindowPcs /\ hist.window_acquire /\ lock = "free") ~> (pc \notin WindowPcs)

MonitoringStopPoints ==
    {"MONITORING:before-130", "MONITORING:130-138", "MONITORING:after-152"}

\* C9 as stated: after a stop made in MONITORING the thread reaches the
\* finally block at its next keep_running check, after at most one line 165
\* sleep, without entering YIELDING or blocking on the lock.
C9_StopWithoutYield ==
    hist.stop_at \in MonitoringStopPoints =>
        /\ Phase(pc) \in {"MONITORING", "TERMINATING", "TERMINATED"}
        /\ hist.stop_passes = 0
        /\ hist.stop_sleeps <= 1

\* C9 amended: after a stop made in MONITORING no keep_running check passes
\* and at most one line 165 sleep is made; YIELDING is entered at most once,
\* and only when the stop landed between the iteration's keep_running read
\* (line 130) and its yield check (line 138).
C9_StopAtNextCheck ==
    hist.stop_at \in MonitoringStopPoints =>
        /\ hist.stop_passes = 0
        /\ hist.stop_sleeps <= 1
        /\ hist.stop_yields <= 1
        /\ Phase(pc) \notin {"PENDING_ACTIVATION", "ACQUIRING_LOCK"}
        /\ Phase(pc) = "YIELDING" => hist.stop_yields = 1
        /\ hist.stop_yields = 1 => hist.stop_at = "MONITORING:130-138"

\* A stop made between lines 130 and 138 ended the run after one yield.
C9_Witness ==
    /\ hist.stop_at = "MONITORING:130-138"
    /\ hist.stop_yields = 1
    /\ pc = "done"
    /\ hist.exit_cause = "stop"

\* C10: a stop made in PENDING_ACTIVATION, ACQUIRING_LOCK or YIELDING is not
\* lost: keep_running stays false and no later keep_running check passes;
\* made before the first acquire, it ends the run at the check that follows
\* the acquire, before any other step of the loop.
C10_DeferredStopNotLost ==
    hist.stop_at \in {"PENDING_ACTIVATION", "ACQUIRING_LOCK", "YIELDING"} =>
        /\ ~keep_running
        /\ hist.stop_passes = 0
        /\ hist.stop_at # "YIELDING" =>
               /\ pc \notin (MonitoringPcs \ {"loop_cond"})
               /\ hist.exit_cause \in {"none", "stop", "fault"}

\* A stop made in YIELDING ended the run at the keep_running check.
C10_Witness ==
    /\ hist.stop_at = "YIELDING"
    /\ pc = "done"
    /\ hist.exit_cause = "stop"

\* C11 as stated: a run stopped during the activation delay still paints the
\* toast once before the stop ends it.
C11_PaintDespiteStopInDelay ==
    (pc = "done" /\ hist.stop_at = "PENDING_ACTIVATION" /\ hist.exit_cause = "stop")
        => hist.paint_lock # "-"

\* C11 amended: after a stop made during the activation delay the thread
\* still acquires the lock when the delay is over, but the stop ends the run
\* at the keep_running check that follows the acquire: nothing is captured or
\* painted, nothing is restored, and the lock it acquired is released.
C11_StopInDelayPreventsPaint ==
    hist.stop_at = "PENDING_ACTIVATION" =>
        /\ ~has_rendered
        /\ previous_screen_state = None
        /\ hist.capture_lock = "-"
        /\ hist.paint_lock = "-"
        /\ hist.restore_lock = "-"
        /\ hist.exit_cause \in {"none", "stop", "fault"}
        /\ (pc = "done" /\ hist.exit_cause = "stop") => hist.release_lock = "toast"

\* The media-removal toast, stopped during its delay of 3 s, has ended.
C11_Witness ==
    /\ variant = "RemoveSDCard"
    /\ hist.stop_at = "PENDING_ACTIVATION"
    /\ now >= RemoveSDActivationDelay
    /\ pc = "done"
    /\ hist.exit_cause = "stop"
    /\ hist.release_lock = "toast"

\* C12: a toggle_renderer_lock() made in a yield window (after line 141
\* cleared the flag, before the reacquire of line 151 returned) causes no
\* second release of the lock after that reacquire.
C12_LateYieldHasNoEffect ==
    hist.late_yield # "released"

\* C13: with the finite default duration, a thread that was started and for
\* which no input, stop, yield request or fault ever occurs eventually ends by
\* the elapsed-time check of line 160, having restored the captured frame and
\* released its lock.
C13_TimeoutTerminates ==
    (/\ variant = "SDCardStateChange"
     /\ <>(pc = "start")
     /\ [](keep_running /\ ~has_input /\ ~toggle /\ hist.exit_cause # "fault"))
        => <>(/\ pc = "done"
              /\ hist.exit_cause = "timeout"
              /\ hist.restore_lock = "toast"
              /\ hist.after_cleanup = previous_screen_state
              /\ hist.release_lock = "toast")

\* The thread has ended by the elapsed-time check with no stop, no input and
\* no yield served, and the captured frame is back on the display.
C13_Witness ==
    /\ pc = "done"
    /\ hist.exit_cause = "timeout"
    /\ keep_running
    /\ ~has_input
    /\ hist.yields_served = 0
    /\ hist.after_cleanup = previous_screen_state
    /\ hist.release_lock = "toast"

\* C14: the media-removal toast, once constructed, leaves the try body only
\* by a stop, an input, a fault or the medium being absent: while the medium is present,
\* no stop and no input has occurred and the 1e6 s are not over it stays in
\* the try body, leaving MONITORING only to serve a requested yield, and once
\* the medium is absent no continuation check of line 130 passes, whether or
\* not the toast has been painted.
C14_EndsWhenMediumAbsent ==
    variant = "RemoveSDCard" =>
        /\ ~hist.absent_pass
        /\ hist.exit_cause = "predicate" => ~sd_inserted
        /\ (/\ Phase(pc) # "NOT_CONSTRUCTED"
            /\ sd_inserted
            /\ keep_running
            /\ ~has_input
            /\ hist.exit_cause # "fault"
            /\ now - start <= activation_delay + duration)
               => /\ InRunBody
                  /\ Phase(pc) = "YIELDING" => "yield_pending" \in hist.iter

\* The medium was removed before the first paint and the run has ended.
C14_Witness ==
    /\ variant = "RemoveSDCard"
    /\ pc = "done"
    /\ hist.exit_cause = "predicate"
    /\ ~has_rendered
    /\ now >= RemoveSDActivationDelay

\* C16: the capture and the paint are reached in an iteration only after, in
\* that iteration, keep_running was read true, should_keep_running() returned
\* true, no input was pending and the yield check was made; a yield pending
\* at that check has been served (the lock is reacquired) before the paint.
C16_ChecksPrecedePaint ==
    pc \in {"copy", "render"} =>
        /\ {"keep_running", "predicate", "no_input"} \subseteq hist.iter
        /\ "no_yield" \in hist.iter \/ "yield_pending" \in hist.iter
        /\ "yield_pending" \in hist.iter =>
               ("yield_served" \in hist.iter /\ lock = "toast")

\* The toast was painted in an iteration that first served a yield.
C16_Witness ==
    /\ pc = "timeout_check"
    /\ has_rendered
    /\ hist.paint_yielded
    /\ hist.yields_served = 1
    /\ "yield_served" \in hist.iter

\* C18: has_rendered is true only after canvas.copy() and toast.render() have
\* both returned: previous_screen_state is then set, and a fault raised by
\* either call leaves has_rendered false.
C18_RenderedOnlyAfterPaint ==
    /\ has_rendered =>
           /\ previous_screen_state # None
           /\ hist.captures = 1
           /\ hist.paints = 1
    /\ pc \in {"copy", "render"} => ~has_rendered
    /\ (hist.exit_cause = "fault" /\ hist.exit_from \in {"copy", "render"})
           => ~has_rendered

\* render() raised after it had drawn: the toast is on the display and
\* has_rendered is false.
C18_Witness ==
    /\ hist.exit_cause = "fault"
    /\ hist.exit_from = "render"
    /\ display = Toast
    /\ previous_screen_state # None
    /\ ~has_rendered

\* C19: in one run canvas.copy() is executed at most once and the toast is
\* drawn at most once; once has_rendered is true the thread is never again
\* at the capture or the paint, however many yields are served.
C19_CaptureAndPaintOnce ==
    /\ hist.captures <= 1
    /\ hist.paints <= 1
    /\ has_rendered => pc \notin {"copy", "render"}

\* After the paint a yield was served in which another consumer drew; the
\* thread is past line 154 with the lock and has drawn once.
C19_Witness ==
    /\ has_rendered
    /\ ~hist.paint_yielded
    /\ hist.yields_served > 0
    /\ display \in Frames
    /\ lock = "toast"
    /\ pc = "loop_sleep"
    /\ hist.paints = 1
    /\ hist.captures = 1

\* C20: a run that ends by a stop, a false predicate or an input with
\* has_rendered false has written nothing to the display (no capture, no
\* paint, no restore) and has served no yield: it acquired the lock and
\* released the lock it held.
C20_NoPaintNoDisplayWrite ==
    (pc = "done" /\ ~has_rendered /\ hist.exit_cause \in {"stop", "predicate", "input"})
        => /\ hist.paints = 0
           /\ hist.captures = 0
           /\ hist.restore_lock = "-"
           /\ previous_screen_state = None
           /\ hist.yields_served = 0
           /\ hist.release_lock = "toast"

\* A run ended by an input before the first paint.
C20_Witness ==
    /\ pc = "done"
    /\ ~has_rendered
    /\ hist.exit_cause = "input"
    /\ hist.release_lock = "toast"
    /\ hist.restore_lock = "-"

\* C17: a toast hidden by the elapsed-time check of line 160 has been on the
\* display for at least the display duration since its paint.
C17_VisibleForDuration ==
    hist.exit_cause = "timeout" => hist.hide_time - hist.paint_time >= duration

\* A construction that the constructors reject.
ConfigInvalid ==
    \/ variant = "Base"
    \/ variant = "SDCardStateChange" /\ action \notin ValidActions

\* C15: a controller without instantiate_toast, or a state-change toast with
\* an action other than the two allowed, fails in its constructor: no thread
\* is started, the lock is never acquired and nothing of run() happens; a
\* valid construction raises no configuration error.
C15_ConfigErrorAtConstruction ==
    /\ ConfigInvalid =>
           /\ pc \in {"new", "config_error"}
           /\ lock # "toast"
           /\ display = "A"
           /\ hist = InitHist
    /\ pc = "config_error" => ConfigInvalid

\* The state-change toast was constructed with an invalid action.
C15_Witness ==
    /\ pc = "config_error"
    /\ variant = "SDCardStateChange"
    /\ action = "invalid"

====
